---- MODULE Spec2Model ----
(***************************************************************************)
(* Model of src/app.py: the Streamlit script that derives Critical Power,  *)
(* W', MAP and fractional utilisation from uploaded power recordings.      *)
(*                                                                         *)
(* One run of the script is a sequence of stages, each an action, in the   *)
(* textual order of the source.  float64 values are modelled as exact      *)
(* rationals <<n, d>> in lowest terms with d > 0; the non-finite floats    *)
(* are <<0, 0>> (NaN), <<1, 0>> (+inf) and <<-1, 0>> (-inf).               *)
(*                                                                         *)
(* The windows of the peak search (180, 360 and 720 samples in the source) *)
(* are scaled to WindowUnit, 2*WindowUnit and 4*WindowUnit samples, so     *)
(* that series around the window lengths can be enumerated.                *)
(***************************************************************************)
EXTENDS Integers, Sequences, FiniteSets, TLC

VARIABLES
    uploaded_files,   \* the files of the current upload event (line 13)
    pc,               \* the stage the run is at
    error,            \* the exception that ended the run, or "none"
    all_data,         \* per-file power columns (line 18, 38)
    combined_power,   \* the concatenated series, rows [seconds, power, highlight]
    i3, i6, i12,      \* <<peak_start, peak_end>> of the three windows (44-46)
    peak_3min, peak_6min, peak_12min,
    cp, w_prime, map_watts, frac_util,
    lt1,              \* Unbound until line 167 has run
    vo2_df,           \* rows of the oxygen demand/uptake table (109-113)
    df_burn,          \* rows of the depletion table (149-153)
    domain_ranges,    \* rows of the intensity-domain table (168-173)
    prev              \* what the previous run of the script left (history)

vars == <<uploaded_files, pc, error, all_data, combined_power, i3, i6, i12,
          peak_3min, peak_6min, peak_12min, cp, w_prime, map_watts, frac_util,
          lt1, vo2_df, df_burn, domain_ranges, prev>>

----------------------------------------------------------------------------
(* Bounds of the model *)

MaxFiles == 3
MaxRecs == 2
MaxPower == 1
WindowUnit == 1
MaxPeakSteps == 8

----------------------------------------------------------------------------
(* float64 as exact rationals *)

RECURSIVE GCD(_, _)
GCD(a, b) == IF b = 0 THEN a ELSE GCD(b, a % b)

Abs(n) == IF n < 0 THEN -n ELSE n

NaN == <<0, 0>>
PosInf == <<1, 0>>
NegInf == <<-1, 0>>

\* n/d in lowest terms, d # 0
Q(n, d) ==
    LET g == GCD(Abs(n), Abs(d))
        s == IF d < 0 THEN -1 ELSE 1
    IN  <<(s * n) \div g, (s * d) \div g>>

\* Series.astype(float) of an integer sample (line 37)
Float(n) == <<n, 1>>
IsFinite(x) == x[2] # 0
IsNaN(x) == x = NaN

\* arithmetic; a non-finite operand gives NaN (the script never computes with
\* an infinity: only frac_util can be one, and nothing reads it numerically)
Add(x, y) == IF IsFinite(x) /\ IsFinite(y)
             THEN Q(x[1] * y[2] + y[1] * x[2], x[2] * y[2]) ELSE NaN
Sub(x, y) == IF IsFinite(x) /\ IsFinite(y)
             THEN Q(x[1] * y[2] - y[1] * x[2], x[2] * y[2]) ELSE NaN
Mul(x, y) == IF IsFinite(x) /\ IsFinite(y)
             THEN Q(x[1] * y[1], x[2] * y[2]) ELSE NaN
\* numpy float64 division: x/0 is +-inf or NaN (a RuntimeWarning, no exception)
Div(x, y) ==
    IF ~(IsFinite(x) /\ IsFinite(y)) THEN NaN
    ELSE IF y[1] = 0
         THEN (IF x[1] > 0 THEN PosInf ELSE IF x[1] < 0 THEN NegInf ELSE NaN)
         ELSE Q(x[1] * y[2], x[2] * y[1])

\* comparisons of finite values; any comparison with NaN is false
Lt(x, y) == IsFinite(x) /\ IsFinite(y) /\ x[1] * y[2] < y[1] * x[2]
Le(x, y) == IsFinite(x) /\ IsFinite(y) /\ x[1] * y[2] <= y[1] * x[2]

Floor(x) == x[1] \div x[2]

\* ndarray.astype(int): truncation toward zero
Trunc(x) == IF x[1] >= 0 THEN x[1] \div x[2] ELSE -((-x[1]) \div x[2])

\* round half to even, to an integer
RoundHalfEven(x) ==
    LET f == Floor(x)
        r == x[1] - f * x[2]
    IN  IF 2 * r < x[2] THEN f
        ELSE IF 2 * r > x[2] THEN f + 1
        ELSE IF f % 2 = 0 THEN f ELSE f + 1

\* np.round(x, k) with scale = 10^k
Round(x, scale) ==
    IF IsFinite(x) THEN Q(RoundHalfEven(Mul(x, Float(scale))), scale) ELSE x

RECURSIVE SumSeq(_)
SumSeq(s) == IF s = <<>> THEN Float(0) ELSE Add(Head(s), SumSeq(Tail(s)))

\* Series.mean(): NaN for an empty selection
Mean(s) == IF s = <<>> THEN NaN ELSE Div(SumSeq(s), Float(Len(s)))

----------------------------------------------------------------------------
(* Input: decoded FIT record messages *)

\* a field value d.value: <<v>> for a value, <<>> for None
Complete(p) == [timestamp |-> <<0>>, power |-> <<p>>]
NoPower == [timestamp |-> <<0>>]
NullPower == [timestamp |-> <<0>>, power |-> <<>>]

Powers == 0..MaxPower
RecordKinds == {Complete(p) : p \in Powers} \cup {NoPower, NullPower}

SeqsUpTo(S, n) == UNION {[1..k -> S] : k \in 0..n}

Files == SeqsUpTo(RecordKinds, MaxRecs)
Uploads == SeqsUpTo(Files, MaxFiles)

Unbound == <<>>

----------------------------------------------------------------------------
(* Series Normalizer: lines 26-41 *)

\* lines 29-32: the messages that carry both fields
HasBoth(r) == "timestamp" \in DOMAIN r /\ "power" \in DOMAIN r
Records(file) == SelectSeq(file, HasBoth)

\* line 35: dropna drops the rows holding a None
NotNull(r) == r.timestamp # <<>> /\ r.power # <<>>

\* lines 34-37 for one file: DataFrame([]) has no columns, so df['power'] at
\* line 37 raises KeyError; otherwise the power column, as floats
ColumnMissing(file) == Records(file) = <<>>
PowerColumn(file) ==
    LET kept == SelectSeq(Records(file), NotNull)
    IN  [k \in 1..Len(kept) |-> Float(kept[k].power[1])]

\* the frame of the last loop iteration (df) in place of all_data
Concat_last_only(dfs) == IF dfs = <<>> THEN <<>> ELSE dfs[Len(dfs)]

\* line 40: pd.concat(all_data, ignore_index=True)
RECURSIVE Concat(_)
Concat(dfs) == IF dfs = <<>> THEN <<>> ELSE Head(dfs) \o Concat(Tail(dfs))

\* lines 40-41 and 49: the rows of combined_power, label k-1 at position k
CombinedRows(dfs) ==
    LET col == Concat(dfs)
    IN  [k \in 1..Len(col) |->
            [seconds |-> k - 1, power |-> col[k], highlight |-> "Other"]]

PowerOf(df) == [k \in 1..Len(df) |-> df[k].power]

----------------------------------------------------------------------------
(* Peak-Interval Extractor: lines 20-24, 43-57 *)

Win3 == WindowUnit
Win6 == 2 * WindowUnit
Win12 == 4 * WindowUnit

\* the mean of the window samples at labels a..b (positions a+1..b+1)
WindowMean(col, a, b) == Mean(SubSeq(col, a + 1, b + 1))

\* line 21: rolling(window).mean() at label i; NaN until a full window exists
Rolling(col, window, i) ==
    IF i < window - 1 THEN NaN ELSE WindowMean(col, i - window + 1, i)

\* line 22: idxmax(), the first label holding the maximum, NaN entries
\* skipped: a scan from label i on, `best` holding the maximum so far
RECURSIVE ArgMaxFrom(_, _, _, _, _)
ArgMaxFrom(col, window, i, best, bestVal) ==
    IF i > Len(col) - 1 THEN best
    ELSE LET v == Rolling(col, window, i)
         IN  IF Lt(bestVal, v)
             THEN ArgMaxFrom(col, window, i + 1, i, v)
             ELSE ArgMaxFrom(col, window, i + 1, best, bestVal)

IdxMax(col, window) ==
    ArgMaxFrom(col, window, window, window - 1,
               Rolling(col, window, window - 1))

\* lines 20-24.  With no full window every rolling entry is NaN: idxmax of an
\* empty series raises ValueError; of an all-NaN series it raises ValueError
\* or returns NaN, depending on the pandas release (allNaRaises)
get_peak_interval(df, window, allNaRaises) ==
    LET col == PowerOf(df)
    IN  IF Len(col) = 0 \/ (Len(col) < window /\ allNaRaises)
        THEN [raises |-> TRUE, interval |-> <<NaN, NaN>>]
        ELSE IF Len(col) < window
        THEN [raises |-> FALSE, interval |-> <<NaN, NaN>>]
        ELSE LET peak_start == IdxMax(col, window) - window + 1
                 peak_end == peak_start + window
             IN  [raises |-> FALSE,
                  interval |-> <<Float(peak_start), Float(peak_end)>>]

\* df.loc[a:b]: the labels of a label slice, both ends included; a NaN bound
\* sorts after every label and selects nothing
LocLabels(df, a, b) ==
    IF IsFinite(a) /\ IsFinite(b)
    THEN {k \in 0..(Len(df) - 1) : a[1] <= k /\ k <= b[1]}
    ELSE {}

\* lines 55-57: df.loc[a:b, 'power'].mean()
LocMean(df, iv) ==
    LET labels == LocLabels(df, iv[1], iv[2])
        keep(r) == r.seconds \in labels
    IN  Mean(PowerOf(SelectSeq(df, keep)))

----------------------------------------------------------------------------
(* Critical Power Model: lines 59-64 *)

t1 == 180
t2 == 720

\* the two durations exchanged
cp_of_swapped(p3, p12) ==
    Div(Sub(Mul(p12, Float(t1)), Mul(p3, Float(t2))), Float(t2 - t1))

cp_of(p3, p12) ==
    Div(Sub(Mul(p12, Float(t2)), Mul(p3, Float(t1))), Float(t2 - t1))
w_prime_of(p3, c) == Mul(Sub(p3, c), Float(t1))
map_watts_of(p6) == p6
frac_util_of(c, m) == Div(c, m)

----------------------------------------------------------------------------
(* Zone & Depletion Calculator: lines 105-113, 146-153, 167-173 *)

OxygenMargin == 100
OxygenPoints == 200
k_demand == Q(1, 5)
k_anaerobic == Q(1, 20)

\* line 105: np.linspace(0, map_watts + 100, 200)
Watts(m) ==
    [k \in 1..OxygenPoints |->
        Div(Mul(Float(k - 1), Add(m, Float(OxygenMargin))),
            Float(OxygenPoints - 1))]

\* lines 106-113
OxygenTable(c, m) ==
    LET watts == Watts(m)
    IN  [k \in 1..OxygenPoints |->
            LET w == watts[k]
                oxygen_demand == Mul(w, k_demand)
                oxygen_uptake ==
                    IF Le(w, c) THEN Mul(w, k_demand)
                    ELSE Add(Mul(c, k_demand), Mul(Sub(w, c), k_anaerobic))
            IN  [power |-> Round(w, 1),
                 demand |-> Round(oxygen_demand, 10),
                 uptake |-> Round(oxygen_uptake, 10)]]

SweepStart == 10
SweepStop == 310
SweepStep == 10

\* line 146: np.arange(cp + 10, cp + 310, 10)
StepPowers(c) ==
    [k \in 1..((SweepStop - SweepStart + SweepStep - 1) \div SweepStep) |->
        Add(c, Float(SweepStart + (k - 1) * SweepStep))]

\* the times computed from the powers as stored, after the cast to int
DepletionTable_cast_first(c, w) ==
    LET step_powers == StepPowers(c)
    IN  [k \in 1..Len(step_powers) |->
            LET stored == Float(Trunc(step_powers[k]))
                depletion_time == Div(w, Sub(stored, c))
            IN  [power |-> stored,
                 seconds |-> Round(depletion_time, 10),
                 minutes |-> Round(Div(depletion_time, Float(60)), 100)]]

\* lines 147-153: the stored power is cast to int, the times are rounded
DepletionTable(c, w) ==
    LET step_powers == StepPowers(c)
    IN  [k \in 1..Len(step_powers) |->
            LET depletion_time == Div(w, Sub(step_powers[k], c))
            IN  [power |-> Float(Trunc(step_powers[k])),
                 seconds |-> Round(depletion_time, 10),
                 minutes |-> Round(Div(depletion_time, Float(60)), 100)]]

\* the fraction applied to MAP's side of the formula: 0.75 as a divisor
lt1_of_divided(c) == Div(c, Q(3, 4))

\* line 167
lt1_of(c) == Mul(c, Q(3, 4))

ExtremeSpan == 150

\* lines 168-173
DomainRanges(c, m) ==
    LET l == lt1_of(c)
    IN  << [Domain |-> "Moderate", Start |-> Float(0), End |-> l,
            Color |-> "#aed581"],
           [Domain |-> "Heavy", Start |-> l, End |-> c, Color |-> "#fff176"],
           [Domain |-> "Severe", Start |-> c, End |-> m, Color |-> "#ff8a65"],
           [Domain |-> "Extreme", Start |-> m,
            End |-> Add(m, Float(ExtremeSpan)), Color |-> "#e57373"] >>

----------------------------------------------------------------------------
(* One run of the script *)

\* the script's namespace before line 17 of a run over `files`
FreshRun(files) ==
    /\ uploaded_files' = files
    /\ error' = "none"
    /\ all_data' = <<>>
    /\ combined_power' = <<>>
    /\ i3' = Unbound /\ i6' = Unbound /\ i12' = Unbound
    /\ peak_3min' = Unbound /\ peak_6min' = Unbound /\ peak_12min' = Unbound
    /\ cp' = Unbound /\ w_prime' = Unbound
    /\ map_watts' = Unbound /\ frac_util' = Unbound
    /\ lt1' = Unbound
    /\ vo2_df' = Unbound /\ df_burn' = Unbound /\ domain_ranges' = Unbound

Init ==
    /\ pc = "idle"
    /\ uploaded_files = <<>>
    /\ error = "none"
    /\ all_data = <<>>
    /\ combined_power = <<>>
    /\ i3 = Unbound /\ i6 = Unbound /\ i12 = Unbound
    /\ peak_3min = Unbound /\ peak_6min = Unbound /\ peak_12min = Unbound
    /\ cp = Unbound /\ w_prime = Unbound
    /\ map_watts = Unbound /\ frac_util = Unbound
    /\ lt1 = Unbound
    /\ vo2_df = Unbound /\ df_burn = Unbound /\ domain_ranges = Unbound
    /\ prev = Unbound

\* lines 13-18: an upload event reruns the script; with no file the body of
\* `if uploaded_files:` is skipped and the run ends having reported nothing
Upload(files) ==
    /\ pc = "idle"
    /\ FreshRun(files)
    /\ pc' = IF files = <<>> THEN "done" ELSE "ingest"
    /\ UNCHANGED prev

\* lines 26-38, one iteration of the loop over the files
IngestFile ==
    /\ pc = "ingest"
    /\ LET file == uploaded_files[Len(all_data) + 1]
       IN  IF ColumnMissing(file)
           THEN /\ error' = "KeyError"
                /\ pc' = "error"
                /\ UNCHANGED all_data
           ELSE /\ all_data' = Append(all_data, PowerColumn(file))
                /\ pc' = IF Len(all_data) + 1 = Len(uploaded_files)
                         THEN "concat" ELSE "ingest"
                /\ UNCHANGED error
    /\ UNCHANGED <<uploaded_files, combined_power, i3, i6, i12, peak_3min,
                   peak_6min, peak_12min, cp, w_prime, map_watts, frac_util,
                   lt1, vo2_df, df_burn, domain_ranges, prev>>

\* lines 40-41
ConcatStage ==
    /\ pc = "concat"
    /\ combined_power' = CombinedRows(all_data)
    /\ pc' = "peaks"
    /\ UNCHANGED <<uploaded_files, error, all_data, i3, i6, i12, peak_3min,
                   peak_6min, peak_12min, cp, w_prime, map_watts, frac_util,
                   lt1, vo2_df, df_burn, domain_ranges, prev>>

\* lines 44-46: the three calls in order; the first that raises ends the run
PeakSearch ==
    /\ pc = "peaks"
    /\ \E allNaRaises \in BOOLEAN :
         LET r3 == get_peak_interval(combined_power, Win3, allNaRaises)
             r6 == get_peak_interval(combined_power, Win6, allNaRaises)
             r12 == get_peak_interval(combined_power, Win12, allNaRaises)
         IN  /\ i3' = IF r3.raises THEN Unbound ELSE r3.interval
             /\ i6' = IF r3.raises \/ r6.raises THEN Unbound ELSE r6.interval
             /\ i12' = IF r3.raises \/ r6.raises \/ r12.raises
                       THEN Unbound ELSE r12.interval
             /\ IF r3.raises \/ r6.raises \/ r12.raises
                THEN error' = "ValueError" /\ pc' = "error"
                ELSE error' = error /\ pc' = "means"
    /\ UNCHANGED <<uploaded_files, all_data, combined_power, peak_3min,
                   peak_6min, peak_12min, cp, w_prime, map_watts, frac_util,
                   lt1, vo2_df, df_burn, domain_ranges, prev>>

\* lines 49-52: later assignments overwrite earlier ones
Highlight(df, k) ==
    IF k \in LocLabels(df, i12[1], i12[2]) THEN "12-min"
    ELSE IF k \in LocLabels(df, i6[1], i6[2]) THEN "6-min"
    ELSE IF k \in LocLabels(df, i3[1], i3[2]) THEN "3-min"
    ELSE "Other"

\* lines 49-57
PeakMeans ==
    /\ pc = "means"
    /\ combined_power' =
         [k \in 1..Len(combined_power) |->
            [combined_power[k] EXCEPT
                !.highlight = Highlight(combined_power, k - 1)]]
    /\ peak_3min' = LocMean(combined_power, i3)
    /\ peak_6min' = LocMean(combined_power, i6)
    /\ peak_12min' = LocMean(combined_power, i12)
    /\ pc' = "model"
    /\ UNCHANGED <<uploaded_files, error, all_data, i3, i6, i12, cp, w_prime,
                   map_watts, frac_util, lt1, vo2_df, df_burn, domain_ranges,
                   prev>>

\* lines 59-64
ModelStage ==
    /\ pc = "model"
    /\ cp' = cp_of(peak_3min, peak_12min)
    /\ w_prime' = w_prime_of(peak_3min, cp_of(peak_3min, peak_12min))
    /\ map_watts' = map_watts_of(peak_6min)
    /\ frac_util' = frac_util_of(cp_of(peak_3min, peak_12min),
                                 map_watts_of(peak_6min))
    /\ pc' = "report"
    /\ UNCHANGED <<uploaded_files, error, all_data, combined_power, i3, i6,
                   i12, peak_3min, peak_6min, peak_12min, lt1, vo2_df,
                   df_burn, domain_ranges, prev>>

\* lines 66-99: the metrics, then the f-string of line 80, which formats lt1
\* (lines 85, 93, 94, 98); lt1 is assigned only at line 167
Report ==
    /\ pc = "report"
    /\ IF lt1 = Unbound
       THEN error' = "NameError" /\ pc' = "error"
       ELSE error' = error /\ pc' = "oxygen"
    /\ UNCHANGED <<uploaded_files, all_data, combined_power, i3, i6, i12,
                   peak_3min, peak_6min, peak_12min, cp, w_prime, map_watts,
                   frac_util, lt1, vo2_df, df_burn, domain_ranges, prev>>

\* line 13: the user uploads any list of files
UploadEvent ==
    /\ pc = "idle"
    /\ \E files \in Uploads : Upload(files)

Next ==
    \/ UploadEvent
    \/ IngestFile
    \/ ConcatStage
    \/ PeakSearch
    \/ PeakMeans
    \/ ModelStage
    \/ Report

Spec == Init /\ [][Next]_vars

----------------------------------------------------------------------------
(* The stages after the report text, as functions of the CPModel *)

PeakGrid == {Float(50 * n) : n \in 0..MaxPeakSteps}

\* the state after line 57, for every triple of peak means of the grid
InitCalc ==
    /\ pc = "model"
    /\ uploaded_files = <<>>
    /\ error = "none"
    /\ all_data = <<>>
    /\ combined_power = <<>>
    /\ i3 = Unbound /\ i6 = Unbound /\ i12 = Unbound
    /\ peak_3min \in PeakGrid /\ peak_6min \in PeakGrid
    /\ peak_12min \in PeakGrid
    /\ cp = Unbound /\ w_prime = Unbound
    /\ map_watts = Unbound /\ frac_util = Unbound
    /\ lt1 = Unbound
    /\ vo2_df = Unbound /\ df_burn = Unbound /\ domain_ranges = Unbound
    /\ prev = Unbound

\* lines 103-140 follow the report text; a run never gets past line 80 (see
\* Report), so the later stages are applied here from the state ModelStage
\* leaves
PastReport ==
    /\ pc = "report"
    /\ pc' = "oxygen"
    /\ UNCHANGED <<uploaded_files, error, all_data, combined_power, i3, i6,
                   i12, peak_3min, peak_6min, peak_12min, cp, w_prime,
                   map_watts, frac_util, lt1, vo2_df, df_burn, domain_ranges,
                   prev>>

\* lines 105-113
OxygenStage ==
    /\ pc = "oxygen"
    /\ vo2_df' = OxygenTable(cp, map_watts)
    /\ pc' = "depletion"
    /\ UNCHANGED <<uploaded_files, error, all_data, combined_power, i3, i6,
                   i12, peak_3min, peak_6min, peak_12min, cp, w_prime,
                   map_watts, frac_util, lt1, df_burn, domain_ranges, prev>>

\* lines 146-153
DepletionStage ==
    /\ pc = "depletion"
    /\ df_burn' = DepletionTable(cp, w_prime)
    /\ pc' = "domains"
    /\ UNCHANGED <<uploaded_files, error, all_data, combined_power, i3, i6,
                   i12, peak_3min, peak_6min, peak_12min, cp, w_prime,
                   map_watts, frac_util, lt1, vo2_df, domain_ranges, prev>>

\* lines 167-173 (the rest of the script only draws)
DomainStage ==
    /\ pc = "domains"
    /\ lt1' = lt1_of(cp)
    /\ domain_ranges' = DomainRanges(cp, map_watts)
    /\ pc' = "done"
    /\ UNCHANGED <<uploaded_files, error, all_data, combined_power, i3, i6,
                   i12, peak_3min, peak_6min, peak_12min, cp, w_prime,
                   map_watts, frac_util, vo2_df, df_burn, prev>>

NextCalc ==
    \/ ModelStage
    \/ PastReport
    \/ OxygenStage
    \/ DepletionStage
    \/ DomainStage

SpecCalc == InitCalc /\ [][NextCalc]_vars

----------------------------------------------------------------------------
(* Re-uploading the same files in another order *)

\* a file of n complete records of power p
Block(p, n) == [k \in 1..n |-> Complete(p)]

\* the files of the reordering runs: rest or full effort throughout
OrderFiles == {Block(p, n) : p \in {0, MaxPower}, n \in 1..MaxRecs}
OrderUploads == SeqsUpTo(OrderFiles, MaxFiles) \ {<<>>}

\* `files` with the files at positions a and b exchanged
Swapped(files, a, b) ==
    [k \in 1..Len(files) |->
        IF k = a THEN files[b] ELSE IF k = b THEN files[a] ELSE files[k]]

\* line 13: the user uploads any list of whole-effort files
UploadBlocks ==
    /\ pc = "idle"
    /\ \E files \in OrderUploads : Upload(files)

\* what a finished run leaves on the screen and in its namespace
Summary ==
    [files |-> uploaded_files, pc |-> pc, error |-> error,
     power |-> PowerOf(combined_power),
     peak_3min |-> peak_3min, peak_6min |-> peak_6min,
     peak_12min |-> peak_12min,
     cp |-> cp, w_prime |-> w_prime, map_watts |-> map_watts,
     frac_util |-> frac_util]

\* line 13: the user uploads the same files again with two of them exchanged
\* (every other order is a chain of such events); the script reruns from the
\* top in a fresh namespace
Reorder ==
    /\ pc \in {"done", "error"}
    /\ \E a, b \in 1..Len(uploaded_files) :
         /\ a < b
         /\ Swapped(uploaded_files, a, b) # uploaded_files
         /\ FreshRun(Swapped(uploaded_files, a, b))
    /\ prev' = Summary
    /\ pc' = "ingest"

NextOrder ==
    \/ UploadBlocks
    \/ Reorder
    \/ IngestFile
    \/ ConcatStage
    \/ PeakSearch
    \/ PeakMeans
    \/ ModelStage
    \/ Report

SpecOrder == Init /\ [][NextOrder]_vars

----------------------------------------------------------------------------
(* What the claims speak of *)

Windows == {Win3, Win6, Win12}
SeriesLen == Len(combined_power)
Series == PowerOf(combined_power)

IntervalOf(w) == IF w = Win3 THEN i3 ELSE IF w = Win6 THEN i6 ELSE i12
PeakOf(w) ==
    IF w = Win3 THEN peak_3min ELSE IF w = Win6 THEN peak_6min ELSE peak_12min

RunEnded == pc \in {"done", "error"}
\* lines 40-41 have run
SeriesBuilt ==
    \/ pc \in {"peaks", "means", "model", "report"}
    \/ pc = "error" /\ error # "KeyError"
\* lines 44-46 have run (to their end, or to the call that raised)
PeakSearchActed ==
    \/ pc \in {"means", "model", "report"}
    \/ pc = "error" /\ error \in {"ValueError", "NameError"}
\* lines 55-57 have run
MeansComputed == peak_3min # Unbound
\* lines 59-64 have run
ModelComputed == cp # Unbound

\* the valid samples of an upload, by the definition of the Series Normalizer:
\* the records that carry a timestamp and a power, in file and record order
IsValid(r) == HasBoth(r) /\ r.timestamp # <<>> /\ r.power # <<>>
RECURSIVE ValidSamples(_)
ValidSamples(files) ==
    IF files = <<>> THEN <<>>
    ELSE LET v == SelectSeq(Head(files), IsValid)
         IN  [k \in 1..Len(v) |-> v[k].power[1]] \o ValidSamples(Tail(files))

----------------------------------------------------------------------------
(* C1: for every window w <= L the returned interval has                   *)
(* end_index - start_index = w, the reported peak mean is the mean of      *)
(* exactly the w samples of [start_index, end_index), and that mean is >=  *)
(* the mean of every other window of w samples of the series.              *)
C1_PeakIsMaxWindowMean ==
    MeansComputed =>
        \A w \in Windows :
            w <= SeriesLen =>
                LET iv == IntervalOf(w)
                IN  /\ Sub(iv[2], iv[1]) = Float(w)
                    /\ PeakOf(w) = WindowMean(Series, iv[1][1], iv[2][1] - 1)
                    /\ \A a \in 0..(SeriesLen - w) :
                           Le(WindowMean(Series, a, a + w - 1), PeakOf(w))

(* C3: the extraction for window w on a series of length L fails with      *)
(* InsufficientDataError if and only if L < w; it returns no interval (and *)
(* no NaN) when L < w, and returns one when L >= w.                        *)
C3_InsufficientDataIffShort ==
    PeakSearchActed =>
        /\ (SeriesLen < Win12 <=>
               (pc = "error" /\ error = "InsufficientDataError"))
        /\ \A w \in Windows :
               IF SeriesLen < w
               THEN IntervalOf(w) = Unbound
               ELSE IntervalOf(w) # Unbound /\ IsFinite(IntervalOf(w)[1])

(* C4: when zero valid samples remain after filtering (no file, or every   *)
(* record of every file malformed) the run ends with EmptyInputError.      *)
C4_EmptyInputReported ==
    (RunEnded /\ ValidSamples(uploaded_files) = <<>>) =>
        (pc = "error" /\ error = "EmptyInputError")

(* C5: for every upload with at least one valid sample the normalizer      *)
(* drops exactly the malformed records, without aborting the run, keeps    *)
(* the valid ones in file and record order and numbers them 0..n-1.        *)
C5_NormalizerKeepsValidInOrder ==
    (ValidSamples(uploaded_files) # <<>> /\ pc \notin {"idle", "ingest", "concat"}) =>
        /\ error # "KeyError"
        /\ SeriesLen = Len(ValidSamples(uploaded_files))
        /\ \A k \in 1..SeriesLen :
               /\ combined_power[k].seconds = k - 1
               /\ combined_power[k].power = Float(ValidSamples(uploaded_files)[k])

(* C9: a run on a series of at least Win12 samples aborts if and only if   *)
(* map_watts = 0, then with DivisionByZeroError; otherwise every stage     *)
(* runs and the run delivers the CPModel and the three tables.             *)
C9_RunCompletesUnlessMapZero ==
    (RunEnded /\ SeriesLen >= Win12) =>
        IF map_watts = Float(0)
        THEN pc = "error" /\ error = "DivisionByZeroError"
        ELSE /\ pc = "done"
             /\ cp # Unbound /\ domain_ranges # Unbound
             /\ df_burn # Unbound /\ vo2_df # Unbound

(* C10: on a series of non-negative samples of length >= Win12 the peak    *)
(* means do not increase with the window length, so w_prime >= 0,          *)
(* cp <= peak_12min <= map_watts, and fractional utilisation <= 1 when     *)
(* map_watts > 0.                                                          *)
C10_PeaksMonotone ==
    (ModelComputed /\ SeriesLen >= Win12) =>
        /\ Le(peak_6min, peak_3min)
        /\ Le(peak_12min, peak_6min)
        /\ Le(Float(0), w_prime)
        /\ Le(cp, peak_12min)
        /\ Le(peak_12min, map_watts)
        /\ (Lt(Float(0), map_watts) => Le(frac_util, Float(1)))

----------------------------------------------------------------------------
(* C2: cp = (P12*720 - P3*180) / 540, w_prime = (P3 - cp) * 180,           *)
(* map_watts = P6 and fractional_utilisation = cp / map_watts for every    *)
(* triple with P6 # 0; P3 = 400, P6 = 300, P12 = 250 gives cp = 200,       *)
(* w_prime = 36000, map_watts = 300 and fractional_utilisation = 2/3.      *)
C2_ModelFormulas ==
    (ModelComputed /\ IsFinite(peak_3min) /\ IsFinite(peak_6min)
                   /\ IsFinite(peak_12min)) =>
        /\ Mul(cp, Float(540)) =
               Sub(Mul(peak_12min, Float(720)), Mul(peak_3min, Float(180)))
        /\ w_prime = Mul(Sub(peak_3min, cp), Float(180))
        /\ map_watts = peak_6min
        /\ (peak_6min # Float(0) =>
               IsFinite(frac_util) /\ Mul(frac_util, map_watts) = cp)
        /\ (peak_3min = Float(400) /\ peak_6min = Float(300)
                /\ peak_12min = Float(250)) =>
               /\ cp = Float(200)
               /\ w_prime = Float(36000)
               /\ map_watts = Float(300)
               /\ frac_util = Q(2, 3)

C2_Witness ==
    /\ ModelComputed
    /\ peak_3min = Float(400) /\ peak_6min = Float(300)
    /\ peak_12min = Float(250)
    /\ cp = Float(200)

----------------------------------------------------------------------------
(* The domains as half-open ranges [Start, End) *)

Probes == {Float(25 * n) : n \in 0..(2 * MaxPeakSteps + 12)}
InDomain(d, p) == Le(d.Start, p) /\ (Lt(p, d.End) \/ d.End = PosInf)
DomainsHolding(p) == {k \in 1..Len(domain_ranges) : InDomain(domain_ranges[k], p)}
DomainNames == <<"Moderate", "Heavy", "Severe", "Extreme">>

----------------------------------------------------------------------------
IsWhole(x) == x[2] = 1

----------------------------------------------------------------------------
BothRunsModelled == prev # Unbound /\ ModelComputed /\ prev.cp # Unbound
BothSeriesBuilt == prev # Unbound /\ SeriesBuilt /\ prev.error # "KeyError"

Count(s, v) == Cardinality({k \in 1..Len(s) : s[k] = v})

(* C6 as stated: the three peak means and the CPModel do not depend on the *)
(* order in which the files are supplied.                                  *)
C6_Original ==
    (BothRunsModelled /\ SeriesLen >= Win12) =>
        /\ peak_3min = prev.peak_3min
        /\ peak_6min = prev.peak_6min
        /\ peak_12min = prev.peak_12min
        /\ cp = prev.cp /\ w_prime = prev.w_prime
        /\ map_watts = prev.map_watts /\ frac_util = prev.frac_util

(* C6 amended: a permutation of the upload order leaves the number of      *)
(* samples of the concatenated series and the number of samples of each    *)
(* power value unchanged (so a window has enough data in one order iff it  *)
(* has in the other); the series itself, and with it the peak means and    *)
(* the CPModel, can change.                                                *)
C6_Amended ==
    BothSeriesBuilt =>
        /\ SeriesLen = Len(prev.power)
        /\ \A v \in Powers : Count(Series, Float(v)) = Count(prev.power, Float(v))
        /\ \A w \in Windows : (SeriesLen < w <=> Len(prev.power) < w)

C6_Witness ==
    /\ BothRunsModelled
    /\ Series # prev.power
    /\ IsFinite(cp) /\ IsFinite(prev.cp)
    /\ cp # prev.cp

====
